---- MODULE Spec2Model ----
(***************************************************************************)
(* A model of validator.py: MemorandumValidator.validate_file and the      *)
(* eight rule checks it runs over the paragraphs of a parsed document.     *)
(*                                                                         *)
(* Paragraph texts are strings; the regular expressions and the string     *)
(* methods of the source are operators over them, computed character by    *)
(* character.  Margins are hundredths of an inch; the floating-point       *)
(* comparison of the margin check is computed exactly (see                 *)
(* exceeds_tolerance).  Paragraph numbers are numerals of any length, and  *)
(* the ValueError that int() and str() raise beyond IntMaxStrDigits digits *)
(* reaches the except Exception handler of validate_file.                  *)
(***************************************************************************)
EXTENDS Integers, Sequences, FiniteSets, TLC

(***************************************************************************)
(* Strings                                                                 *)
(***************************************************************************)

\* The i-th character of s, as a one-character string; "" beyond either end
\* (it belongs to no character class and equals no character).
Char(s, i) == IF 1 <= i /\ i <= Len(s) THEN SubSeq(s, i, i) ELSE ""

\* The characters str.strip() removes and the regex class \s matches, among
\* the ASCII characters (the model's texts are ASCII): space, \t, \n, \r, \f
\* and the control characters VT (0x0B), FS (0x1C), GS (0x1D), RS (0x1E) and
\* US (0x1F), each of which stands in its string below as itself.
Whitespace ==
  {" ", "\t", "\n", "\r", "\f", "", "", "", "", ""}

IsSpace(c) == c \in Whitespace

\* The regex class \d, on ASCII texts.
IsDigit(c) == c \in {"0", "1", "2", "3", "4", "5", "6", "7", "8", "9"}

UpperAlpha == "ABCDEFGHIJKLMNOPQRSTUVWXYZ"

LowerAlpha == "abcdefghijklmnopqrstuvwxyz"

\* Case folding of the letters, as re.IGNORECASE compares ASCII letters.
FoldedLetter ==
  [c \in {Char(UpperAlpha, k) : k \in 1..Len(UpperAlpha)} |->
     Char(LowerAlpha, CHOOSE k \in 1..Len(UpperAlpha) : Char(UpperAlpha, k) = c)]

Fold(c) == IF c \in DOMAIN FoldedLetter THEN FoldedLetter[c] ELSE c

\* min and max of a non-empty set of numbers.
Min(S) == CHOOSE x \in S : \A y \in S : x <= y

Max(S) == -Min({-x : x \in S})

\* The literal lit stands in s at position i (case-sensitive).
LiteralAt(s, i, lit) ==
  /\ i >= 1
  /\ i + Len(lit) - 1 <= Len(s)
  /\ SubSeq(s, i, i + Len(lit) - 1) = lit

\* The literal lit stands in s at position i, letters compared without case.
LiteralAtIgnoreCase(s, i, lit) ==
  /\ i >= 1
  /\ i + Len(lit) - 1 <= Len(s)
  /\ \A k \in 1..Len(lit) : Fold(Char(s, i + k - 1)) = Fold(Char(lit, k))

\* str.startswith and str.endswith.
startswith(s, prefix) == LiteralAt(s, 1, prefix)

endswith(s, suffix) == LiteralAt(s, Len(s) - Len(suffix) + 1, suffix)

\* The first position at or after i that holds no whitespace (Len(s) + 1 if
\* none): where a greedy \s* or \s+ starting at i ends.
SkipSpaces(s, i) ==
  Min({j \in i..(Len(s) + 1) : j = Len(s) + 1 \/ ~IsSpace(Char(s, j))})

\* The last position at or before i that holds no whitespace (0 if none).
RECURSIVE LastNonSpace(_, _)
LastNonSpace(s, i) ==
  IF i = 0 \/ ~IsSpace(Char(s, i)) THEN i ELSE LastNonSpace(s, i - 1)

\* str.strip(): s without its leading and trailing whitespace.
strip(s) ==
  IF SkipSpaces(s, 1) > Len(s) THEN ""
  ELSE SubSeq(s, SkipSpaces(s, 1), LastNonSpace(s, Len(s)))

\* The first position at or after i that holds no digit: where a greedy \d+
\* starting at i ends.
SkipDigits(s, i) ==
  Min({j \in i..(Len(s) + 1) : j = Len(s) + 1 \/ ~IsDigit(Char(s, j))})

DigitValue(c) == CHOOSE d \in 0..9 : ToString(d) = c

\* The number a string of at most four decimal digits reads as: the day and
\* the year strptime converts.
RECURSIVE to_int(_)
to_int(digits) ==
  IF digits = "" THEN 0
  ELSE 10 * to_int(SubSeq(digits, 1, Len(digits) - 1))
         + DigitValue(Char(digits, Len(digits)))

(***************************************************************************)
(* Python integers have no fixed width.  Those of the Body check are kept  *)
(* as numerals: the decimal digits of the number, without leading zeros,   *)
(* which is also what an f-string writes for the number.                   *)
(***************************************************************************)

\* sys.int_info.default_max_str_digits: int() refuses a string of more
\* digits, and str() an integer of more digits, with a ValueError.
IntMaxStrDigits == 4300

\* int(digits) raises ValueError; str(e) of that error.
int_raises(digits) == Len(digits) > IntMaxStrDigits

int_error(digits) ==
  "Exceeds the limit (" \o ToString(IntMaxStrDigits)
    \o " digits) for integer string conversion: value has "
    \o ToString(Len(digits))
    \o " digits; use sys.set_int_max_str_digits() to increase the limit"

\* int(digits) for a string of decimal digits, when it does not raise.
int_numeral(digits) ==
  LET first == Min({j \in 1..(Len(digits) + 1) :
                      j = Len(digits) + 1 \/ Char(digits, j) # "0"})
  IN  IF first > Len(digits) THEN "0" ELSE SubSeq(digits, first, Len(digits))

\* s written n times.
RECURSIVE Repeat(_, _)
Repeat(s, n) ==
  IF n = 0 THEN ""
  ELSE IF n % 2 = 0 THEN LET half == Repeat(s, n \div 2) IN half \o half
  ELSE s \o Repeat(s, n - 1)

\* n + 1 for a numeral n: the digit before the trailing nines goes up by one
\* (a leading 1 is written if there is none) and the nines become zeros.
plus_one(n) ==
  LET p == Max({j \in 0..Len(n) : j = 0 \/ Char(n, j) # "9"})
  IN  (IF p = 0 THEN "1"
       ELSE SubSeq(n, 1, p - 1) \o ToString(DigitValue(Char(n, p)) + 1))
      \o Repeat("0", Len(n) - p)

\* f"{n}" raises ValueError for the integer of numeral n; str(e) of that
\* error.
str_raises(n) == Len(n) > IntMaxStrDigits

str_error ==
  "Exceeds the limit (" \o ToString(IntMaxStrDigits)
    \o " digits) for integer string conversion; use sys.set_int_max_str_digits() to increase the limit"

(***************************************************************************)
(* Issues                                                                  *)
(***************************************************************************)

\* Optional[int]: None, or a number.
None == <<>>

Some(n) == <<n>>

\* ValidationIssue(severity, section, message, paragraph_number).
ValidationIssue(severity, section, message, paragraph_number) ==
  [severity |-> severity, section |-> section, message |-> message,
   paragraph_number |-> paragraph_number]

(***************************************************************************)
(* Regular expressions of the source                                       *)
(***************************************************************************)

\* The literals a locator pattern stands for: 'Attachments?:' has an optional
\* s, every other pattern of the source is one literal.
PatternLiterals(pattern) ==
  IF pattern = "Attachments?:" THEN {"Attachment:", "Attachments:"}
  ELSE {pattern}

\* re.search(pattern, text, re.IGNORECASE) for the locator patterns.
re_search_ignorecase(pattern, text) ==
  \E lit \in PatternLiterals(pattern) :
    \E i \in 1..Len(text) : LiteralAtIgnoreCase(text, i, lit)

MonthNames ==
  <<"January", "February", "March", "April", "May", "June", "July",
    "August", "September", "October", "November", "December">>

\* re.match(date_pattern, text) with date_pattern
\* ^\d{1,2}\s+(?:January|...|December)\s+\d{4}\s*$
match_date_pattern(text) ==
  LET d == SkipDigits(text, 1)
      m == SkipSpaces(text, d)
  IN  /\ d \in {2, 3}
      /\ m > d
      /\ \E k \in 1..Len(MonthNames) :
           /\ LiteralAt(text, m, MonthNames[k])
           /\ LET y0 == m + Len(MonthNames[k])
                  y  == SkipSpaces(text, y0)
              IN  /\ y > y0
                  /\ SkipDigits(text, y) >= y + 4
                  /\ SkipSpaces(text, y + 4) = Len(text) + 1

\* The day tokens %d accepts: 3[0-1] | [1-2]\d | 0[1-9] | [1-9] | " "[1-9].
DayTokens ==
  {"30", "31"}
  \cup {a \o b : a \in {"1", "2"},
                 b \in {"0", "1", "2", "3", "4", "5", "6", "7", "8", "9"}}
  \cup {a \o b : a \in {"0", " "},
                 b \in {"1", "2", "3", "4", "5", "6", "7", "8", "9"}}
  \cup {"1", "2", "3", "4", "5", "6", "7", "8", "9"}

IsLeapYear(year) ==
  year % 4 = 0 /\ (year % 100 # 0 \/ year % 400 = 0)

DaysInMonth(month, year) ==
  IF month = 2 THEN (IF IsLeapYear(year) THEN 29 ELSE 28)
  ELSE IF month \in {4, 6, 9, 11} THEN 30 ELSE 31

\* datetime.strptime(text, '%d %B %Y') returns (TRUE) or raises ValueError
\* (FALSE): the whole text must read <day token> \s+ <month, any case> \s+
\* <four digits>, and day, month, year must make a date of years 1..9999.
strptime_succeeds(text) ==
  \E n \in {1, 2} :
    /\ n <= Len(text)
    /\ SubSeq(text, 1, n) \in DayTokens
    /\ LET m == SkipSpaces(text, n + 1)
       IN  /\ m > n + 1
           /\ \E k \in 1..Len(MonthNames) :
                /\ LiteralAtIgnoreCase(text, m, MonthNames[k])
                /\ LET y0 == m + Len(MonthNames[k])
                       y  == SkipSpaces(text, y0)
                   IN  /\ y > y0
                       /\ SkipDigits(text, y) >= y + 4
                       /\ y + 4 = Len(text) + 1
                       /\ to_int(SubSeq(text, y, y + 3)) >= 1
                       /\ to_int(strip(SubSeq(text, 1, n)))
                            <= DaysInMonth(k, to_int(SubSeq(text, y, y + 3)))

\* re.match(r'^FROM:\s+.+', text) and re.match(r'^SUBJECT:\s+.+', text):
\* the anchor, one or more whitespace characters, then a character that is
\* not a newline.
match_anchor_with_content(anchor, text) ==
  /\ startswith(text, anchor)
  /\ \E k \in (Len(anchor) + 1)..Len(text) :
       /\ \A j \in (Len(anchor) + 1)..k : IsSpace(Char(text, j))
       /\ k + 1 <= Len(text)
       /\ Char(text, k + 1) # "\n"

\* re.match(r'^(\d+)\.\s+', text): TRUE when it matches.
match_paragraph_number(text) ==
  LET d == SkipDigits(text, 1)
  IN  d > 1 /\ Char(text, d) = "." /\ IsSpace(Char(text, d + 1))

\* match.group(1) of the match above: the digits.
paragraph_digits(text) == SubSeq(text, 1, SkipDigits(text, 1) - 1)

\* int(match.group(1)), as a numeral.
paragraph_number_of(text) == int_numeral(paragraph_digits(text))

\* re.match(r'Tab\s+\d+', text).
match_tab_pattern(text) ==
  /\ startswith(text, "Tab")
  /\ SkipSpaces(text, 4) > 4
  /\ IsDigit(Char(text, SkipSpaces(text, 4)))

Ranks ==
  {"Colonel", "Lt Col", "Major", "Captain", "Lieutenant", "General",
   "Brig Gen", "Maj Gen", "Lt Gen", "Col", "Capt", "Lt", "Gen"}

Branches == {"USAF", "USSF"}

\* re.search(r'.+,\s*(?:Colonel|...|Gen),\s*(?:USAF|USSF)', text): a comma
\* with a non-newline character before it, then a rank, a comma and a branch,
\* whitespace allowed after each comma.
search_name_rank_branch(text) ==
  \E p \in 2..Len(text) :
    /\ Char(text, p) = ","
    /\ Char(text, p - 1) # "\n"
    /\ \E rank \in Ranks :
         LET q == SkipSpaces(text, p + 1)
             c == q + Len(rank)
         IN  /\ LiteralAt(text, q, rank)
             /\ Char(text, c) = ","
             /\ \E branch \in Branches :
                  LiteralAt(text, SkipSpaces(text, c + 1), branch)

(***************************************************************************)
(* The rule checks.  Each is the sequence of issues the method appends to  *)
(* self.issues, given self.paragraphs (and self.document for the margins). *)
(* Paragraph indices are 0-based as in the source: paragraph i is          *)
(* paragraphs[i + 1].                                                      *)
(***************************************************************************)

\* _find_paragraph_index(pattern, start): the first index at or after start
\* whose text matches, or -1.
find_paragraph_index(paragraphs, pattern, start) ==
  LET hits == {i \in start..(Len(paragraphs) - 1) :
                 re_search_ignorecase(pattern, paragraphs[i + 1])}
  IN  IF hits = {} THEN -1 ELSE Min(hits)

\* A variant of get_text_by_index: the text as it is, not stripped.
get_text_by_index_unstripped(paragraphs, index) ==
  IF 0 <= index /\ index < Len(paragraphs) THEN paragraphs[index + 1] ELSE ""

\* _get_text_by_index(index).
get_text_by_index(paragraphs, index) ==
  IF 0 <= index /\ index < Len(paragraphs) THEN strip(paragraphs[index + 1])
  ELSE ""

\* The window of _validate_date: range(min(5, len(self.paragraphs))).
DateWindow == 5

\* A variant of date_loop without the break: every date-shaped paragraph of
\* the window is examined.
RECURSIVE date_loop_no_break(_, _)
date_loop_no_break(paragraphs, i) ==
  IF i >= Min({DateWindow, Len(paragraphs)})
  THEN [found |-> FALSE, issues |-> <<>>]
  ELSE LET text == strip(paragraphs[i + 1])
           rest == date_loop_no_break(paragraphs, i + 1)
       IN  IF match_date_pattern(text)
           THEN [found |-> TRUE,
                 issues |->
                   (IF strptime_succeeds(text) THEN <<>>
                    ELSE <<ValidationIssue("WARNING", "Date",
                             "Date format appears correct but may be invalid: "
                               \o text,
                             Some(i + 1))>>) \o rest.issues]
           ELSE rest

\* The loop of _validate_date from index i on: the issues it appends and
\* whether it set found.
RECURSIVE date_loop(_, _)
date_loop(paragraphs, i) ==
  IF i >= Min({DateWindow, Len(paragraphs)})
  THEN [found |-> FALSE, issues |-> <<>>]
  ELSE LET text == strip(paragraphs[i + 1])
       IN  IF match_date_pattern(text)
           THEN [found |-> TRUE,
                 issues |->
                   IF strptime_succeeds(text) THEN <<>>
                   ELSE <<ValidationIssue("WARNING", "Date",
                            "Date format appears correct but may be invalid: "
                              \o text,
                            Some(i + 1))>>]
           ELSE date_loop(paragraphs, i + 1)

\* _validate_date.
validate_date(paragraphs) ==
  IF Len(paragraphs) = 0
  THEN <<ValidationIssue("CRITICAL", "Date", "Document is empty", None)>>
  ELSE LET r == date_loop(paragraphs, 0)
       IN  IF r.found THEN r.issues
           ELSE r.issues \o
                <<ValidationIssue("CRITICAL", "Date",
                    "Missing or incorrectly formatted date. Expected format: 'DD Month YYYY' (e.g., '12 March 2025')",
                    None)>>

\* _validate_memorandum_for.
validate_memorandum_for(paragraphs) ==
  LET idx == find_paragraph_index(paragraphs, "MEMORANDUM FOR", 0)
  IN  IF idx = -1
      THEN <<ValidationIssue("CRITICAL", "Header",
               "Missing 'MEMORANDUM FOR' line", None)>>
      ELSE IF ~startswith(get_text_by_index(paragraphs, idx), "MEMORANDUM FOR")
           THEN <<ValidationIssue("WARNING", "Header",
                    "'MEMORANDUM FOR' should be at the start of the line",
                    Some(idx + 1))>>
           ELSE <<>>

\* _validate_from_line.
validate_from_line(paragraphs) ==
  LET idx == find_paragraph_index(paragraphs, "FROM:", 0)
  IN  IF idx = -1
      THEN <<ValidationIssue("CRITICAL", "Header", "Missing 'FROM:' line", None)>>
      ELSE IF ~match_anchor_with_content("FROM:",
                                         get_text_by_index(paragraphs, idx))
           THEN <<ValidationIssue("WARNING", "Header",
                    "FROM: line should be followed by sender information",
                    Some(idx + 1))>>
           ELSE <<>>

\* _validate_subject_line.
validate_subject_line(paragraphs) ==
  LET idx == find_paragraph_index(paragraphs, "SUBJECT:", 0)
  IN  IF idx = -1
      THEN <<ValidationIssue("CRITICAL", "Header", "Missing 'SUBJECT:' line",
               None)>>
      ELSE IF ~match_anchor_with_content("SUBJECT:",
                                         get_text_by_index(paragraphs, idx))
           THEN <<ValidationIssue("WARNING", "Header",
                    "SUBJECT: line should be followed by subject text",
                    Some(idx + 1))>>
           ELSE <<>>

\* The boundary of the body when no '//SIGNED//' is found at or after the
\* Subject line: sig_idx = len(self.paragraphs).
body_end_without_signature(paragraphs) == Len(paragraphs)

\* How a piece of code ends: it completes, or it raises an exception whose
\* str() is error.
Completes == [raises |-> FALSE, error |-> ""]

Raises(error) == [raises |-> TRUE, error |-> error]

\* The first loop of _validate_body_paragraphs over range(i, sig_idx):
\* found_paragraphs, the (para_num, i) pairs in document order, unless int()
\* raises at a candidate.
RECURSIVE collect_numbered(_, _, _)
collect_numbered(paragraphs, i, sig_idx) ==
  IF i >= sig_idx THEN [outcome |-> Completes, found_paragraphs |-> <<>>]
  ELSE LET text == strip(paragraphs[i + 1])
       IN  IF ~match_paragraph_number(text)
           THEN collect_numbered(paragraphs, i + 1, sig_idx)
           ELSE IF int_raises(paragraph_digits(text))
           THEN [outcome |-> Raises(int_error(paragraph_digits(text))),
                 found_paragraphs |-> <<>>]
           ELSE LET rest == collect_numbered(paragraphs, i + 1, sig_idx)
                IN  [outcome |-> rest.outcome,
                     found_paragraphs |->
                       <<[para_num |-> paragraph_number_of(text),
                          para_idx |-> i]>> \o rest.found_paragraphs]

\* The value expected takes after a candidate numbered para_num was compared
\* with expected: expected = para_num + 1.
next_expected(expected, para_num) == plus_one(para_num)

\* The second loop of _validate_body_paragraphs from candidate k on, with the
\* current value of expected: the WARNINGs it appends, unless the f-string of
\* a WARNING raises.
RECURSIVE numbering_loop(_, _, _)
numbering_loop(found_paragraphs, k, expected) ==
  IF k > Len(found_paragraphs) THEN [outcome |-> Completes, issues |-> <<>>]
  ELSE LET para_num == found_paragraphs[k].para_num
           para_idx == found_paragraphs[k].para_idx
       IN  IF para_num # expected /\ (str_raises(expected) \/ str_raises(para_num))
           THEN [outcome |-> Raises(str_error), issues |-> <<>>]
           ELSE LET rest == numbering_loop(found_paragraphs, k + 1,
                                           next_expected(expected, para_num))
                IN  [outcome |-> rest.outcome,
                     issues |->
                       (IF para_num # expected
                        THEN <<ValidationIssue("WARNING", "Body",
                                 "Paragraph numbering issue: Expected "
                                   \o expected \o ", found " \o para_num,
                                 Some(para_idx + 1))>>
                        ELSE <<>>) \o rest.issues]

\* _validate_body_paragraphs: the issues it appends, and whether it returns
\* or raises.
validate_body_paragraphs(paragraphs) ==
  LET subject_idx == find_paragraph_index(paragraphs, "SUBJECT:", 0)
  IN  IF subject_idx = -1 THEN [outcome |-> Completes, issues |-> <<>>]
      ELSE
        LET located == find_paragraph_index(paragraphs, "//SIGNED//", subject_idx)
            sig_idx == IF located = -1
                       THEN body_end_without_signature(paragraphs)
                       ELSE located
            first_loop == collect_numbered(paragraphs, subject_idx + 1, sig_idx)
            found_paragraphs == first_loop.found_paragraphs
            second_loop == numbering_loop(found_paragraphs, 1, "1")
        IN  IF first_loop.outcome.raises
            THEN [outcome |-> first_loop.outcome, issues |-> <<>>]
            ELSE IF Len(found_paragraphs) = 0
            THEN [outcome |-> Completes,
                  issues |->
                    <<ValidationIssue("CRITICAL", "Body",
                        "No numbered paragraphs found. Body paragraphs should be numbered (1., 2., 3., etc.)",
                        None)>>]
            ELSE IF second_loop.outcome.raises
            THEN second_loop
            ELSE [outcome |-> Completes,
                  issues |->
                    second_loop.issues
                    \o <<ValidationIssue("INFO", "Body",
                           "Found " \o ToString(Len(found_paragraphs))
                             \o " numbered paragraph(s)",
                           None)>>]

\* The paragraphs _validate_signature_block examines after the marker:
\* range(sig_idx + 1, min(sig_idx + 5, len(self.paragraphs))).
SignatureWindow == 5

\* _validate_signature_block.
validate_signature_block(paragraphs) ==
  LET sig_idx == find_paragraph_index(paragraphs, "//SIGNED//", 0)
  IN  IF sig_idx = -1
      THEN <<ValidationIssue("CRITICAL", "Signature",
               "Missing '//SIGNED//' marker in signature block", None)>>
      ELSE
        LET name_found ==
              \E i \in (sig_idx + 1)..
                       (Min({sig_idx + SignatureWindow, Len(paragraphs)}) - 1) :
                search_name_rank_branch(strip(paragraphs[i + 1]))
        IN  IF ~name_found
            THEN <<ValidationIssue("WARNING", "Signature",
                     "Signature block may be incomplete. Expected format: 'Name, Rank, Branch'",
                     Some(sig_idx + 1))>>
            ELSE <<>>

\* A variant of collect_tabs without the break: other text is skipped like
\* an empty paragraph.
RECURSIVE collect_tabs_no_break(_, _)
collect_tabs_no_break(paragraphs, i) ==
  IF i >= Len(paragraphs) THEN <<>>
  ELSE LET text == strip(paragraphs[i + 1])
       IN  IF match_tab_pattern(text)
           THEN <<text>> \o collect_tabs_no_break(paragraphs, i + 1)
           ELSE collect_tabs_no_break(paragraphs, i + 1)

\* The loop of _validate_attachments from index i on: found_tabs.
RECURSIVE collect_tabs(_, _)
collect_tabs(paragraphs, i) ==
  IF i >= Len(paragraphs) THEN <<>>
  ELSE LET text == strip(paragraphs[i + 1])
       IN  IF match_tab_pattern(text)
           THEN <<text>> \o collect_tabs(paragraphs, i + 1)
           ELSE IF text # "" /\ ~match_tab_pattern(text)
                THEN <<>>
                ELSE collect_tabs(paragraphs, i + 1)

\* _validate_attachments.
validate_attachments(paragraphs) ==
  LET attach_idx == find_paragraph_index(paragraphs, "Attachments?:", 0)
  IN  IF attach_idx = -1
      THEN <<ValidationIssue("INFO", "Attachments",
               "No attachments section found (optional)", None)>>
      ELSE
        LET found_tabs == collect_tabs(paragraphs, attach_idx + 1)
        IN  IF Len(found_tabs) = 0
            THEN <<ValidationIssue("WARNING", "Attachments",
                     "Attachments section found but no tabs listed",
                     Some(attach_idx + 1))>>
            ELSE <<ValidationIssue("INFO", "Attachments",
                     "Found " \o ToString(Len(found_tabs))
                       \o " attachment tab(s)",
                     None)>>

Abs(x) == IF x < 0 THEN -x ELSE x

\* 2^n modulo m.
RECURSIVE Pow2Mod(_, _)
Pow2Mod(n, m) == IF n = 0 THEN 1 % m ELSE (2 * Pow2Mod(n - 1, m)) % m

\* IEEE-754 rounding of the quotient num/den to the nearest multiple of 2^-p
\* (no tie arises for the quotients it is used on): the r for which the
\* rounded value is (num * 2^p + r) / (den * 2^p).
RoundingRemainder(num, den, p) ==
  LET rem == (num * Pow2Mod(p, den)) % den
  IN  IF 2 * rem > den THEN den - rem ELSE -rem

\* abs(margin - 1.0) > 0.1 for a margin of h hundredths of an inch, as
\* double arithmetic decides it.  Length.inches is emu / 914400.0, the double
\* nearest to h/100; 0.1 is the double nearest to 1/10.  Away from the two
\* boundary values the rounding errors (below 1e-15) cannot change the
\* comparison of quantities that differ by 0.01 or more.  At h = 90 and
\* h = 110 the subtraction is exact and the comparison is one of the two
\* rounding errors: with x = h/100 + r/(100 * 2^p) (p = 52 on [1, 2), 53 on
\* [0.5, 1)) and 0.1 = 1/10 + r0/(10 * 2^56),
\*   abs(x - 1.0) > 0.1  iff  sign * r * 10 * 2^(56 - p) > 100 * r0.
exceeds_tolerance(h) ==
  IF Abs(h - 100) # 10 THEN Abs(h - 100) > 10
  ELSE LET p    == IF h >= 100 THEN 52 ELSE 53
           sign == IF h >= 100 THEN 1 ELSE -1
           r    == RoundingRemainder(h, 100, p)
           r0   == RoundingRemainder(1, 10, 56)
       IN  sign * r * 10 * 2^(56 - p) > 100 * r0

\* f"{margin:.2f}" for a margin of h hundredths of an inch.
format_2f(h) ==
  ToString(h \div 100) \o "." \o ToString((h % 100) \div 10) \o ToString(h % 10)

\* section.top_margin.inches if section.top_margin else 0, in hundredths: an
\* absent margin (None) and a margin of length 0 both read as 0.
inches_or_zero(margin) == IF margin = None THEN 0 ELSE margin[1]

\* _validate_formatting.  document.sections is a sequence of sections, each
\* with its top_margin and left_margin (None or Some(hundredths)).
validate_formatting(paragraphs, document) ==
  IF Len(paragraphs) = 0 THEN <<>>
  ELSE IF Len(document.sections) = 0 THEN <<>>
  ELSE
    LET section     == document.sections[1]
        top_margin  == inches_or_zero(section.top_margin)
        left_margin == inches_or_zero(section.left_margin)
    IN  (IF exceeds_tolerance(top_margin)
         THEN <<ValidationIssue("INFO", "Formatting",
                  "Top margin is " \o format_2f(top_margin)
                    \o " inches (standard is 1.0 inch)",
                  None)>>
         ELSE <<>>)
        \o
        (IF exceeds_tolerance(left_margin)
         THEN <<ValidationIssue("INFO", "Formatting",
                  "Left margin is " \o format_2f(left_margin)
                    \o " inches (standard is 1.0 inch)",
                  None)>>
         ELSE <<>>)

(***************************************************************************)
(* Inputs.  A call names a path; file is what Document(path) does with     *)
(* it: it raises, or yields the paragraphs and sections of the document.   *)
(***************************************************************************)

Section(top, left) == [top_margin |-> top, left_margin |-> left]

\* The page set-up of a document with 1 inch margins.
StandardSections == <<Section(Some(100), Some(100))>>

ParsedFile(paragraphs, sections) ==
  [raises |-> "none", error |-> "", paragraphs |-> paragraphs,
   sections |-> sections]

RaisingFile(exception, error) ==
  [raises |-> exception, error |-> error, paragraphs |-> <<>>,
   sections |-> <<>>]

Input(path, f) == [file_path |-> path, file |-> f]

\* Every sequence of at most n texts of vocab.
TextsUpTo(vocab, n) == UNION {[1..k -> vocab] : k \in 0..n}

\* The documents create_test_document writes.
ValidMemo ==
  <<"12 March 2025", "", "MEMORANDUM FOR RECORD", "", "FROM: AFROTC/CC", "",
    "SUBJECT: Put Subject Here", "", "1. This memorandum provides ...", "",
    "2. For Questions regarding Memo -- please use the T&Q.", "",
    "3. Additional information can be found in the attachments.", "",
    "//SIGNED//", "", "Snuff A. Brown, Colonel, USAF", "", "Commander", "",
    "Attachments:", "", "Tab 1", "", "Tab 2">>

InvalidMemo ==
  <<"March 12, 2025", "", "MEMO FOR RECORD", "", "FROM AFROTC/CC", "",
    "SUBJECT: Testing", "", "This is paragraph one but not numbered.", "",
    "This is paragraph two but not numbered.", "", "//SIGNED//", "",
    "Snuff Brown", "", "Attachments:">>

\* A memorandum whose only numbered paragraph has one digit more than int()
\* converts, and the same memorandum with the longest number int() converts.
OverlongNumberMemo ==
  <<"12 March 2025", "SUBJECT: Testing",
    Repeat("1", IntMaxStrDigits + 1) \o ". big", "Attachments:", "Tab 1">>

LongestNumberMemo ==
  <<"12 March 2025", "SUBJECT: Testing",
    Repeat("1", IntMaxStrDigits) \o ". big", "Attachments:", "Tab 1">>

\* Inputs every family holds: a path without the extension, a path that only
\* contains it, files Document() cannot open, and the two memoranda above.
ErrorInputs ==
  {Input("memo.doc", ParsedFile(ValidMemo, StandardSections)),
   Input("memo.docx.bak", ParsedFile(ValidMemo, StandardSections)),
   Input("missing.docx",
         RaisingFile("FileNotFoundError", "[Errno 2] No such file or directory")),
   Input("corrupt.docx", RaisingFile("Exception", "File is not a zip file")),
   Input("memo.docx", ParsedFile(OverlongNumberMemo, StandardSections)),
   Input("memo.docx", ParsedFile(LongestNumberMemo, StandardSections))}

\* Family "memo": memoranda assembled part by part, each part right, wrong
\* or missing, and the two documents of create_test_document.
MemoParagraphs ==
  {date \o for \o from \o subject \o body \o signature \o attachments :
     date \in {<<"12 March 2025">>, <<"31 April 2025">>, <<"March 12, 2025">>},
     for \in {<<"MEMORANDUM FOR RECORD">>, <<"MEMO FOR RECORD">>},
     from \in {<<"FROM: AFROTC/CC">>, <<"Sent FROM: AFROTC/CC">>},
     subject \in {<<"SUBJECT: Testing">>, <<"SUBJECT:">>, <<>>},
     body \in {<<"1. One", "2. Two">>, <<"1. One", "3. Three">>, <<"One">>},
     signature \in {<<"//SIGNED//", "Snuff A. Brown, Colonel, USAF">>,
                    <<"//SIGNED//", "Snuff Brown">>, <<>>},
     attachments \in {<<"Attachments:", "Tab 1">>, <<"Attachments:">>, <<>>}}

MemoInputs ==
  {Input("memo.docx", ParsedFile(p, sections)) :
     p \in MemoParagraphs \cup {ValidMemo, InvalidMemo, <<>>},
     sections \in {StandardSections, <<Section(Some(125), Some(75))>>}}

ParsedInputs(docs) ==
  {Input("memo.docx", ParsedFile(p, StandardSections)) : p \in docs}

\* Family "date": documents long enough to have paragraphs beyond the date
\* window, of a valid date, a date-shaped text that is no date and a text
\* that is not date-shaped; and short documents of further date texts.
MaxDateParagraphs == 6

MaxEdgeParagraphs == 2

DateTexts == {"12 March 2025", "32 March 2025", "MEMORANDUM FOR RECORD"}

DateEdgeTexts ==
  {"  29 February 2024\t", "29 February 2025", "1 march 2025", "5 May 0000",
   "12 March 2025 at noon", ""}

DateInputs ==
  ParsedInputs(TextsUpTo(DateTexts, MaxDateParagraphs)
               \cup TextsUpTo(DateTexts \cup DateEdgeTexts, MaxEdgeParagraphs))

\* Family "header": documents of anchor lines, well-formed and not.
MaxHeaderParagraphs == 3

HeaderTexts ==
  {"MEMORANDUM FOR RECORD", "Memorandum For Record", "  MEMORANDUM FOR ALL",
   "FROM: AFROTC/CC", "FROM:", "FROM:AFROTC",
   "SUBJECT: Testing", "Re SUBJECT: x", "subject:\tlower",
   "FROM: X SUBJECT: Y"}

HeaderInputs == ParsedInputs(TextsUpTo(HeaderTexts, MaxHeaderParagraphs))

\* Family "body": a Subject line (or none, or one after a numbered
\* paragraph), then numbered and unnumbered paragraphs and signature markers.
MaxBodyParagraphs == 3

BodyTexts ==
  {"1. One", "2. Two", "3. Three", "4. Four", "12.\tTwelve", "1.5 percent",
   "//SIGNED//", "Signed: //signed//"}

\* Bodies whose numbers are beyond 32 bits, have leading zeros, or reach
\* the limit of int() and str(): the largest number int() converts followed
\* by its successor (which only the f-string of a WARNING would write) or by
\* another number; and an overlong number after a numbered paragraph and
\* after a signature marker.
LongNumberBodies ==
  {<<"12345678901. big", "12345678902. next", "12345678902. again">>,
   <<"007. seven", "08. eight", "0. zero", "00001. one">>,
   <<"99. x", "100. y", "1999. z", "2000. w">>,
   <<Repeat("9", IntMaxStrDigits) \o ". most",
     "1" \o Repeat("0", IntMaxStrDigits) \o ". more">>,
   <<"2. Two", Repeat("9", IntMaxStrDigits) \o ". most", "1. One">>,
   <<"2. Two", Repeat("9", IntMaxStrDigits) \o ". most">>,
   <<"3. Three", "1. One", Repeat("0", IntMaxStrDigits + 1) \o ". zero">>,
   <<"1. One", "//SIGNED//", Repeat("1", IntMaxStrDigits + 1) \o ". big">>}

BodyInputs ==
  ParsedInputs({prefix \o body :
                  prefix \in {<<"SUBJECT: Testing">>, <<>>,
                              <<"1. Before", "SUBJECT: Testing">>},
                  body \in TextsUpTo(BodyTexts, MaxBodyParagraphs)
                           \cup LongNumberBodies})

\* Family "attachments": an anchor line (or none), possibly after a
\* tab-shaped paragraph, then tabs, empty paragraphs and other text; the
\* document of the attachments example; and short tails of further texts.
MaxTailParagraphs == 5

TailTexts == {"Tab 1", "", "Notes"}

TailEdgeTexts == {"Tab1", "Table 1", "  Tab\t2 (map)", " \t", "tab 3"}

AttachmentsExample ==
  <<"Attachments:", "Tab 1", "", "Tab 2", "Notes", "Tab 3">>

AttachmentsInputs ==
  ParsedInputs({before \o anchor \o tail :
                  before \in {<<>>, <<"Tab 0">>},
                  anchor \in {<<"Attachments:">>, <<"see attachment: below">>,
                              <<>>},
                  tail \in TextsUpTo(TailTexts, MaxTailParagraphs)
                           \cup TextsUpTo(TailTexts \cup TailEdgeTexts,
                                          MaxEdgeParagraphs)}
               \cup {AttachmentsExample})

\* Family "margins": top and left margins absent, zero, or within MarginSpan
\* hundredths of 1.00 inch; documents without sections, with two sections,
\* and without paragraphs.
MarginSpan == 12

MarginValues ==
  {None, Some(0)} \cup {Some(h) : h \in (100 - MarginSpan)..(100 + MarginSpan)}

MarginsInputs ==
  {Input("memo.docx", ParsedFile(<<"12 March 2025">>, <<Section(top, left)>>)) :
     top \in MarginValues, left \in MarginValues}
  \cup
  {Input("memo.docx", ParsedFile(<<"12 March 2025">>, <<>>)),
   Input("memo.docx", ParsedFile(<<>>, <<Section(Some(150), Some(50))>>)),
   Input("memo.docx", ParsedFile(<<"12 March 2025">>,
           <<Section(Some(100), Some(100)), Section(Some(150), Some(50))>>))}

\* Family "reuse": a few documents for a caller that validates several files
\* with one validator.
ReuseInputs ==
  {Input("memo.docx", ParsedFile(p, sections)) :
     p \in {ValidMemo, InvalidMemo, <<>>,
            <<"32 March 2025", "SUBJECT: x", "2. Two">>},
     sections \in {StandardSections, <<Section(Some(125), Some(75))>>}}

\* The inputs of a family of documents.
Inputs(fam) ==
  ErrorInputs \cup
  (CASE fam = "memo" -> MemoInputs
     [] fam = "date" -> DateInputs
     [] fam = "header" -> HeaderInputs
     [] fam = "body" -> BodyInputs
     [] fam = "attachments" -> AttachmentsInputs
     [] fam = "margins" -> MarginsInputs
     [] fam = "reuse" -> ReuseInputs)

(***************************************************************************)
(* The validator.                                                          *)
(*   lists      the list objects made so far, by identity (a position)     *)
(*   issues     self.issues: the identity of the list it is bound to       *)
(*   document   self.document: None, or Some(the parsed document)          *)
(*   paragraphs self.paragraphs                                            *)
(*   pc         "idle" between calls, else the step validate_file is at    *)
(*   file_path, file   the argument of the call in progress (or of the     *)
(*              last one) and what Document() does with it                 *)
(*   ran        the steps of the try block executed in this call, in order *)
(*   returned   the (passed, issues) tuples handed to the caller so far    *)
(*   snapshots  the content of each returned list when it was returned     *)
(*   family, callsLeft   the documents the caller draws from and the       *)
(*              number of calls it still makes                             *)
(***************************************************************************)
VARIABLES lists, issues, document, paragraphs, pc, file_path, file, ran,
          returned, snapshots, family, callsLeft

vars == <<lists, issues, document, paragraphs, pc, file_path, file, ran,
          returned, snapshots, family, callsLeft>>

\* __init__, and a caller about to make calls calls on documents of fam.
InitWith(fam, calls) ==
  /\ lists = << <<>> >>
  /\ issues = 1
  /\ document = None
  /\ paragraphs = <<>>
  /\ pc = "idle"
  /\ file_path = ""
  /\ file = RaisingFile("Exception", "")
  /\ ran = <<>>
  /\ returned = <<>>
  /\ snapshots = <<>>
  /\ family = fam
  /\ callsLeft = calls

\* A variant of reset_issues: self.issues.clear(), the same list emptied.
clear_issues(ls, ref) == [lists |-> [ls EXCEPT ![ref] = <<>>], issues |-> ref]

\* self.issues = []: a new list object, to which self.issues is bound.
reset_issues(ls, ref) == [lists |-> Append(ls, <<>>), issues |-> Len(ls) + 1]

\* self.issues.append(...) for each issue of new, in order.
append_issues(ls, ref, new) == [ls EXCEPT ![ref] = ls[ref] \o new]

\* A variant of has_docx_extension: '.docx' anywhere in the path.
contains_docx_extension(path) ==
  \E i \in 1..Len(path) : LiteralAt(path, i, ".docx")

\* file_path.endswith('.docx').
has_docx_extension(path) == endswith(path, ".docx")

\* critical_issues = [i for i in self.issues if i.severity == CRITICAL];
\* passed = len(critical_issues) == 0.
IsCritical(i) == i.severity = "CRITICAL"

\* A variant of compute_passed: any issue fails the document.
compute_passed_no_issue(issue_list) == Len(issue_list) = 0

compute_passed(issue_list) == Len(SelectSeq(issue_list, IsCritical)) = 0

\* The order of the calls in the try block: the step after step.
next_step(step) ==
  CASE step = "Document" -> "validate_date"
    [] step = "validate_date" -> "validate_memorandum_for"
    [] step = "validate_memorandum_for" -> "validate_from_line"
    [] step = "validate_from_line" -> "validate_subject_line"
    [] step = "validate_subject_line" -> "validate_body_paragraphs"
    [] step = "validate_body_paragraphs" -> "validate_signature_block"
    [] step = "validate_signature_block" -> "validate_attachments"
    [] step = "validate_attachments" -> "validate_formatting"
    [] step = "validate_formatting" -> "verdict"

\* return passed, self.issues.
Return(passed, ls) ==
  /\ returned' = Append(returned, [passed |-> passed, issues |-> issues])
  /\ snapshots' = Append(snapshots, ls[issues])
  /\ pc' = "idle"

\* validate_file(path) is called: self.issues = [].
Call ==
  /\ pc = "idle"
  /\ callsLeft > 0
  /\ \E in \in Inputs(family) :
       /\ file_path' = in.file_path
       /\ file' = in.file
  /\ callsLeft' = callsLeft - 1
  /\ LET r == reset_issues(lists, issues)
     IN  lists' = r.lists /\ issues' = r.issues
  /\ ran' = <<>>
  /\ pc' = "start"
  /\ UNCHANGED <<document, paragraphs, returned, snapshots, family>>

\* The path does not end in .docx: one CRITICAL, return False.
WrongExtension ==
  /\ pc = "start"
  /\ ~has_docx_extension(file_path)
  /\ LET ls == append_issues(lists, issues,
                 <<ValidationIssue("CRITICAL", "File",
                     "File must be a .docx document", None)>>)
     IN  lists' = ls /\ Return(FALSE, ls)
  /\ UNCHANGED <<issues, document, paragraphs, file_path, file, ran, family,
                 callsLeft>>

\* Document(file_path) succeeds: self.document and self.paragraphs are set.
OpenDocument ==
  /\ pc = "start"
  /\ has_docx_extension(file_path)
  /\ file.raises = "none"
  /\ document' = Some([sections |-> file.sections])
  /\ paragraphs' = file.paragraphs
  /\ ran' = Append(ran, "Document")
  /\ pc' = next_step("Document")
  /\ UNCHANGED <<lists, issues, file_path, file, returned, snapshots, family,
                 callsLeft>>

\* Document(file_path) raises FileNotFoundError.
FileNotFound ==
  /\ pc = "start"
  /\ has_docx_extension(file_path)
  /\ file.raises = "FileNotFoundError"
  /\ ran' = Append(ran, "Document")
  /\ LET ls == append_issues(lists, issues,
                 <<ValidationIssue("CRITICAL", "File",
                     "File not found: " \o file_path, None)>>)
     IN  lists' = ls /\ Return(FALSE, ls)
  /\ UNCHANGED <<issues, document, paragraphs, file_path, file, family,
                 callsLeft>>

\* except Exception as e, for an exception raised by the statement step of
\* the try block after it appended the issues new: what the run appended so
\* far stays, one CRITICAL of section File is appended, return False.
ExceptException(step, new, error) ==
  /\ ran' = Append(ran, step)
  /\ LET ls == append_issues(lists, issues,
                 new \o <<ValidationIssue("CRITICAL", "File",
                            "Error reading file: " \o error, None)>>)
     IN  lists' = ls /\ Return(FALSE, ls)
  /\ UNCHANGED <<issues, document, paragraphs, file_path, file, family,
                 callsLeft>>

\* Document(file_path) raises another exception.
ReadError ==
  /\ pc = "start"
  /\ has_docx_extension(file_path)
  /\ file.raises = "Exception"
  /\ ExceptException("Document", <<>>, file.error)

\* One check of the try block runs and returns: it appended its issues, and
\* the next statement follows whatever the check found.
RunCheck(step, new) ==
  /\ pc = step
  /\ lists' = append_issues(lists, issues, new)
  /\ ran' = Append(ran, step)
  /\ pc' = next_step(step)
  /\ UNCHANGED <<issues, document, paragraphs, file_path, file, returned,
                 snapshots, family, callsLeft>>

ValidateDate == RunCheck("validate_date", validate_date(paragraphs))

ValidateMemorandumFor ==
  RunCheck("validate_memorandum_for", validate_memorandum_for(paragraphs))

ValidateFromLine == RunCheck("validate_from_line", validate_from_line(paragraphs))

ValidateSubjectLine ==
  RunCheck("validate_subject_line", validate_subject_line(paragraphs))

\* _validate_body_paragraphs returns.
ValidateBodyParagraphs ==
  /\ pc = "validate_body_paragraphs"
  /\ ~validate_body_paragraphs(paragraphs).outcome.raises
  /\ RunCheck("validate_body_paragraphs",
              validate_body_paragraphs(paragraphs).issues)

\* _validate_body_paragraphs raises (ValueError from int() or from an
\* f-string): the same handler as for Document(), the remaining checks are
\* not called.
BodyParagraphsError ==
  /\ pc = "validate_body_paragraphs"
  /\ validate_body_paragraphs(paragraphs).outcome.raises
  /\ ExceptException("validate_body_paragraphs",
                     validate_body_paragraphs(paragraphs).issues,
                     validate_body_paragraphs(paragraphs).outcome.error)

ValidateSignatureBlock ==
  RunCheck("validate_signature_block", validate_signature_block(paragraphs))

ValidateAttachments ==
  RunCheck("validate_attachments", validate_attachments(paragraphs))

ValidateFormatting ==
  RunCheck("validate_formatting", validate_formatting(paragraphs, document[1]))

\* Determine overall pass/fail and return.
Verdict ==
  /\ pc = "verdict"
  /\ Return(compute_passed(lists[issues]), lists)
  /\ UNCHANGED <<lists, issues, document, paragraphs, file_path, file, ran,
                 family, callsLeft>>

Next ==
  \/ Call
  \/ WrongExtension
  \/ OpenDocument
  \/ FileNotFound
  \/ ReadError
  \/ ValidateDate
  \/ ValidateMemorandumFor
  \/ ValidateFromLine
  \/ ValidateSubjectLine
  \/ ValidateBodyParagraphs
  \/ BodyParagraphsError
  \/ ValidateSignatureBlock
  \/ ValidateAttachments
  \/ ValidateFormatting
  \/ Verdict

\* One call on a memorandum of the "memo" family.
Init == InitWith("memo", 1)

Spec == Init /\ [][Next]_vars

\* One call on a document of each other family.
SpecDate == InitWith("date", 1) /\ [][Next]_vars

SpecHeader == InitWith("header", 1) /\ [][Next]_vars

SpecBody == InitWith("body", 1) /\ [][Next]_vars

SpecAttachments == InitWith("attachments", 1) /\ [][Next]_vars

SpecMargins == InitWith("margins", 1) /\ [][Next]_vars

\* MaxCalls calls, one after the other, on the same validator.
MaxCalls == 2

SpecReuse == InitWith("reuse", MaxCalls) /\ [][Next]_vars

(***************************************************************************)
(* Properties                                                              *)
(***************************************************************************)

\* The last call has returned.
Returned == pc = "idle" /\ Len(returned) > 0

\* What the last call returned, and the content of the list it returned.
Last == returned[Len(returned)]

Result == lists[Last.issues]

\* The path names a .docx file: its last five characters are ".docx".
PathHasExtension(path) ==
  Len(path) >= 5 /\ SubSeq(path, Len(path) - 4, Len(path)) = ".docx"

\* The last call parsed its document: Document() returned one.
Parsed == PathHasExtension(file_path) /\ file.raises = "none"

\* The last call executed the statement step of the try block.
Ran(step) == \E k \in 1..Len(ran) : ran[k] = step

\* The issues of a list that a given check section produced / of a severity.
OfSection(issue_list, section) ==
  SelectSeq(issue_list, LAMBDA i : i.section = section)

OfSeverity(issue_list, severity) ==
  SelectSeq(issue_list, LAMBDA i : i.severity = severity)

\* C1: whenever validate_file has returned (wrong extension, parse failure
\* or all checks completed), passed is true exactly when the returned list
\* holds no CRITICAL issue, whatever WARNING and INFO issues it holds.
PassedIffNoCritical ==
  Returned =>
    (Last.passed <=> \A k \in 1..Len(Result) : Result[k].severity # "CRITICAL")

\* A document passes although its result holds WARNING and INFO issues.
PassedWithWarningsAndInfos ==
  /\ Returned
  /\ Last.passed
  /\ Len(OfSeverity(Result, "WARNING")) >= 2
  /\ Len(OfSeverity(Result, "INFO")) >= 2

\* C2: when the path does not end in .docx or Document() raises (the file is
\* absent, or cannot be read as a document), validate_file returns passed =
\* false and exactly one issue, a CRITICAL of section "File"; no rule check
\* has run, and for a wrong extension the document was not even opened.
InputErrorYieldsOneFileIssue ==
  (Returned /\ ~Parsed) =>
    /\ ~Last.passed
    /\ Len(Result) = 1
    /\ Result[1].severity = "CRITICAL"
    /\ Result[1].section = "File"
    /\ \A k \in 1..Len(ran) : ran[k] = "Document"
    /\ (~PathHasExtension(file_path) => ran = <<>>)

\* A path that contains ".docx" without ending in it has been rejected
\* without opening the file.
RejectedWithoutParse ==
  /\ Returned
  /\ file_path = "memo.docx.bak"
  /\ Len(Result) = 1
  /\ ran = <<>>

\* The steps of a run that parses its document, in the order of the source.
CheckOrder ==
  <<"Document", "validate_date", "validate_memorandum_for",
    "validate_from_line", "validate_subject_line", "validate_body_paragraphs",
    "validate_signature_block", "validate_attachments", "validate_formatting">>

\* The position of a section in the order the checks produce them.
SectionRank(section) ==
  CASE section = "Date" -> 1
    [] section = "Header" -> 2
    [] section = "Body" -> 3
    [] section = "Signature" -> 4
    [] section = "Attachments" -> 5
    [] section = "Formatting" -> 6
    [] OTHER -> 0

\* C7: the steps run so far are always an initial part of the fixed order
\* Date, MEMORANDUM FOR, FROM:, SUBJECT:, Body, Signature, Attachments,
\* Margins; a run that parsed its document returns only after all of them
\* ran once each, CRITICAL issues or not; and its issues are ordered by the
\* check that produced them.
ChecksRunOnceInOrder ==
  /\ Len(ran) <= Len(CheckOrder)
  /\ ran = SubSeq(CheckOrder, 1, Len(ran))
  /\ (Returned /\ Parsed) =>
       /\ ran = CheckOrder
       /\ \A i, j \in 1..Len(Result) :
            i < j => SectionRank(Result[i].section) <= SectionRank(Result[j].section)

\* The result of a call on a validator that has validated nothing before.
FreshResult(path, f) ==
  IF ~PathHasExtension(path)
  THEN <<ValidationIssue("CRITICAL", "File", "File must be a .docx document",
           None)>>
  ELSE IF f.raises = "FileNotFoundError"
  THEN <<ValidationIssue("CRITICAL", "File", "File not found: " \o path, None)>>
  ELSE IF f.raises = "Exception"
  THEN <<ValidationIssue("CRITICAL", "File", "Error reading file: " \o f.error,
           None)>>
  ELSE
    LET body == validate_body_paragraphs(f.paragraphs)
    IN  validate_date(f.paragraphs) \o validate_memorandum_for(f.paragraphs)
        \o validate_from_line(f.paragraphs) \o validate_subject_line(f.paragraphs)
        \o body.issues
        \o (IF body.outcome.raises
            THEN <<ValidationIssue("CRITICAL", "File",
                     "Error reading file: " \o body.outcome.error, None)>>
            ELSE validate_signature_block(f.paragraphs)
                 \o validate_attachments(f.paragraphs)
                 \o validate_formatting(f.paragraphs, [sections |-> f.sections]))

\* C10: over successive calls on one validator, the issue list is empty when
\* a call starts, the result of a call is the result a new validator gives
\* for the same input, and every list returned earlier still holds what it
\* held when it was returned.
RunsAreIndependent ==
  /\ pc = "start" => lists[issues] = <<>>
  /\ Returned => Result = FreshResult(file_path, file)
  /\ \A k \in 1..Len(returned) : lists[returned[k].issues] = snapshots[k]

\* Two calls have returned, with different non-empty results.
TwoRunsReturned ==
  /\ pc = "idle"
  /\ Len(returned) = 2
  /\ snapshots[1] # <<>>
  /\ snapshots[2] # <<>>
  /\ snapshots[1] # snapshots[2]
  /\ Len(snapshots[1]) > Len(snapshots[2])

\* The k-th smallest element of a set of numbers.
KthSmallest(S, k) == CHOOSE x \in S : Cardinality({y \in S : y < x}) = k - 1

\* Paragraph numbers below are 1-based, as issues report them.  The text
\* contains the literal, letters compared without case.
Contains(text, lit) == \E j \in 1..Len(text) : LiteralAtIgnoreCase(text, j, lit)

\* The number of the first paragraph at or after from that contains one of the
\* literals; 0 when there is none.
FirstContaining(ps, lits, from) ==
  LET hits == {i \in from..Len(ps) : \E lit \in lits : Contains(ps[i], lit)}
  IN  IF hits = {} THEN 0 ELSE KthSmallest(hits, 1)

\* The only Date issue of a document without a date-shaped paragraph in the
\* window.
MissingDateIssue ==
  ValidationIssue("CRITICAL", "Date",
    "Missing or incorrectly formatted date. Expected format: 'DD Month YYYY' (e.g., '12 March 2025')",
    None)

\* C5: for a non-empty document the Date check is decided by the first
\* date-shaped paragraph among the first min(5, length): no issue if it is a
\* real date, one WARNING with its paragraph number if it is not (whatever
\* follows it), and one CRITICAL if the window holds no date-shaped
\* paragraph, also when paragraph 6 or a later one is date-shaped.
DateDecidedByFirstMatch ==
  (Returned /\ Parsed /\ Len(file.paragraphs) > 0) =>
    LET ps     == file.paragraphs
        shaped == {i \in 1..Len(ps) : i <= 5 /\ match_date_pattern(strip(ps[i]))}
        found  == OfSection(Result, "Date")
    IN  IF shaped = {} THEN found = <<MissingDateIssue>>
        ELSE LET first == KthSmallest(shaped, 1)
             IN  IF strptime_succeeds(strip(ps[first])) THEN found = <<>>
                 ELSE /\ Len(found) = 1
                      /\ found[1].severity = "WARNING"
                      /\ found[1].paragraph_number = Some(first)

\* The first date-shaped paragraph, the second of the document, is no real
\* date; a valid date follows it in the window and another date-shaped
\* paragraph stands at position 6: the result holds one WARNING at 2.
InvalidDateBeforeValidDate ==
  /\ Returned
  /\ Parsed
  /\ Len(file.paragraphs) = 6
  /\ ~match_date_pattern(file.paragraphs[1])
  /\ file.paragraphs[2] = "32 March 2025"
  /\ file.paragraphs[3] = "12 March 2025"
  /\ file.paragraphs[6] = "32 March 2025"
  /\ Len(OfSection(Result, "Date")) = 1
  /\ OfSection(Result, "Date")[1].severity = "WARNING"
  /\ OfSection(Result, "Date")[1].paragraph_number = Some(2)

\* The issues the Body check is to give for the paragraphs lo..hi: with
\* candidates n_1..n_k, a WARNING at each candidate whose number differs from
\* E, where E is 1 for the first and the previous number + 1 for the others,
\* then one INFO with k; one CRITICAL when there is no candidate.
NumberingIssues(ps, lo, hi) ==
  LET cand   == {i \in lo..hi : match_paragraph_number(strip(ps[i]))}
      k      == Cardinality(cand)
      pos(i) == KthSmallest(cand, i)
      n(i)   == paragraph_number_of(strip(ps[pos(i)]))
      E(i)   == IF i = 1 THEN "1" ELSE plus_one(n(i - 1))
      bad    == {i \in 1..k : n(i) # E(i)}
  IN  IF k = 0
      THEN <<ValidationIssue("CRITICAL", "Body",
               "No numbered paragraphs found. Body paragraphs should be numbered (1., 2., 3., etc.)",
               None)>>
      ELSE [j \in 1..Cardinality(bad) |->
              ValidationIssue("WARNING", "Body",
                "Paragraph numbering issue: Expected "
                  \o E(KthSmallest(bad, j)) \o ", found "
                  \o n(KthSmallest(bad, j)),
                Some(pos(KthSmallest(bad, j))))]
           \o <<ValidationIssue("INFO", "Body",
                  "Found " \o ToString(k) \o " numbered paragraph(s)", None)>>

\* The body of a document with a Subject line: the paragraphs after the
\* Subject line and before the first marker at or after it (or the end).
BodyFirst(ps) == FirstContaining(ps, {"SUBJECT:"}, 1) + 1

BodyLast(ps) ==
  LET marker == FirstContaining(ps, {"//SIGNED//"},
                                FirstContaining(ps, {"SUBJECT:"}, 1))
  IN  IF marker = 0 THEN Len(ps) ELSE marker - 1

\* C3: when the body holds numbered candidates, the Body check emits a
\* WARNING "Expected E, found n" exactly at the candidates whose number
\* differs from E (1 at first, the previous number + 1 afterwards), in
\* candidate order, followed by one INFO with the number of candidates.
NumberingResynchronises ==
  (/\ Returned
   /\ Parsed
   /\ FirstContaining(file.paragraphs, {"SUBJECT:"}, 1) # 0
   /\ \E i \in BodyFirst(file.paragraphs)..BodyLast(file.paragraphs) :
        match_paragraph_number(strip(file.paragraphs[i])))
  => OfSection(Result, "Body")
       = NumberingIssues(file.paragraphs, BodyFirst(file.paragraphs),
                         BodyLast(file.paragraphs))

\* No paragraph of the document holds the signature marker.
NoMarker(ps) == \A i \in 1..Len(ps) : ~Contains(ps[i], "//SIGNED//")

\* C6: a document without the marker gets exactly one Signature issue, a
\* CRITICAL, and when it has a Subject line the Body check gives the
\* numbering issues of all the paragraphs after the Subject line, up to the
\* last one.
MissingMarkerBodyRunsToEnd ==
  (Returned /\ Parsed /\ NoMarker(file.paragraphs)) =>
    /\ Len(OfSection(Result, "Signature")) = 1
    /\ OfSection(Result, "Signature")[1].severity = "CRITICAL"
    /\ FirstContaining(file.paragraphs, {"SUBJECT:"}, 1) # 0 =>
         OfSection(Result, "Body")
           = NumberingIssues(file.paragraphs,
               FirstContaining(file.paragraphs, {"SUBJECT:"}, 1) + 1,
               Len(file.paragraphs))

\* C4: whenever the Attachments check has run: with an anchor line, the tabs
\* collected are the tab-shaped paragraphs after the anchor and before the
\* first paragraph that is neither empty after trimming nor tab-shaped; none
\* gives one WARNING at the anchor's paragraph number, some give one INFO
\* with their count; without an anchor line the check gives one INFO.
TabsCollectedUpToOtherText ==
  (Returned /\ Parsed /\ Ran("validate_attachments")) =>
    LET ps       == file.paragraphs
        found    == OfSection(Result, "Attachments")
        anchor   == FirstContaining(ps, {"Attachment:", "Attachments:"}, 1)
        IsTab(i) == match_tab_pattern(strip(ps[i]))
        others   == {i \in (anchor + 1)..Len(ps) : strip(ps[i]) # "" /\ ~IsTab(i)}
        stop     == IF others = {} THEN Len(ps) + 1 ELSE KthSmallest(others, 1)
        tabs     == {i \in (anchor + 1)..(stop - 1) : IsTab(i)}
    IN  IF anchor = 0
        THEN found = <<ValidationIssue("INFO", "Attachments",
                         "No attachments section found (optional)", None)>>
        ELSE IF tabs = {}
        THEN /\ Len(found) = 1
             /\ found[1].severity = "WARNING"
             /\ found[1].paragraph_number = Some(anchor)
        ELSE found = <<ValidationIssue("INFO", "Attachments",
                         "Found " \o ToString(Cardinality(tabs))
                           \o " attachment tab(s)", None)>>

\* "Tab 1", "", "Tab 2", "Notes", "Tab 3" after the anchor gave a count of 2.
ExampleCollectsTwoTabs ==
  /\ Returned
  /\ file.paragraphs = AttachmentsExample
  /\ OfSection(Result, "Attachments") =
       <<ValidationIssue("INFO", "Attachments", "Found 2 attachment tab(s)",
           None)>>

\* The margin a section reports, in hundredths of an inch: 0 when absent.
MarginOf(margin) == IF margin = None THEN 0 ELSE margin[1]

\* The Formatting issues of the result that report the margin of a side
\* ("Top" or "Left").
MarginIssues(side) ==
  SelectSeq(Result,
    LAMBDA i : i.section = "Formatting" /\ startswith(i.message, side \o " margin"))

\* C8: for the top and for the left margin, each on its own, one INFO is
\* raised exactly when the margin differs from 1.00 inch by 0.10 inch or
\* more (raised at a deviation of 0.10 and 0.11, not at 0.09).
MarginIssueFromTenHundredths ==
  (Returned /\ Parsed /\ Len(file.paragraphs) > 0 /\ Len(file.sections) > 0) =>
    /\ Len(MarginIssues("Top")) =
         (IF Abs(MarginOf(file.sections[1].top_margin) - 100) >= 10 THEN 1 ELSE 0)
    /\ Len(MarginIssues("Left")) =
         (IF Abs(MarginOf(file.sections[1].left_margin) - 100) >= 10 THEN 1 ELSE 0)
    /\ \A k \in 1..Len(Result) :
         Result[k].section = "Formatting" => Result[k].severity = "INFO"

\* The anchors of the three header checks.
Anchors == {"MEMORANDUM FOR", "FROM:", "SUBJECT:"}

\* The Header issues of the result that the check of an anchor produced: the
\* messages of a check, and only they, name its anchor.
HeaderIssues(anchor) ==
  SelectSeq(Result,
    LAMBDA i : i.section = "Header" /\ Contains(i.message, anchor))

\* The trimmed text begins with the anchor in exact upper case, for FROM: and
\* SUBJECT: followed by whitespace and at least one further character.
WellFormedAnchorLine(anchor, text) ==
  /\ Len(text) >= Len(anchor)
  /\ SubSeq(text, 1, Len(anchor)) = anchor
  /\ anchor # "MEMORANDUM FOR" =>
       /\ Len(text) >= Len(anchor) + 2
       /\ IsSpace(Char(text, Len(anchor) + 1))

\* What C9 says of the severities: a check emits at most one issue, one
\* CRITICAL when no paragraph contains its anchor, otherwise one WARNING
\* exactly when the first paragraph containing it is not well-formed.
HeaderSeverities(anchor) ==
  LET found == HeaderIssues(anchor)
      first == FirstContaining(file.paragraphs, {anchor}, 1)
  IN  /\ Len(found) <= 1
      /\ first = 0 => (Len(found) = 1 /\ found[1].severity = "CRITICAL")
      /\ first # 0 =>
           /\ Len(found) = 1 <=>
                ~WellFormedAnchorLine(anchor, strip(file.paragraphs[first]))
           /\ Len(found) = 1 => found[1].severity = "WARNING"

\* C9 as stated: the severities above, and every issue of a header check
\* carries the paragraph number of the anchor line.
HeaderIssuesAllCarryAnchorLine ==
  (Returned /\ Parsed) =>
    /\ Len(OfSection(Result, "Header")) <= 3
    /\ \A anchor \in Anchors :
         /\ HeaderSeverities(anchor)
         /\ \A k \in 1..Len(HeaderIssues(anchor)) :
              /\ HeaderIssues(anchor)[k].paragraph_number # None
              /\ HeaderIssues(anchor)[k].paragraph_number
                   = Some(FirstContaining(file.paragraphs, {anchor}, 1))

\* C9, amended: the severities above; a WARNING carries the paragraph number
\* of the anchor line, and the CRITICAL of a missing anchor line carries no
\* paragraph number.
HeaderWarningsCarryAnchorLine ==
  (Returned /\ Parsed) =>
    /\ Len(OfSection(Result, "Header")) <= 3
    /\ \A anchor \in Anchors :
         /\ HeaderSeverities(anchor)
         /\ \A k \in 1..Len(HeaderIssues(anchor)) :
              HeaderIssues(anchor)[k].paragraph_number
                = (IF FirstContaining(file.paragraphs, {anchor}, 1) = 0 THEN None
                   ELSE Some(FirstContaining(file.paragraphs, {anchor}, 1)))

\* A document whose first MEMORANDUM FOR line is well-formed once trimmed,
\* whose FROM: line, the third paragraph, has no content, and which has no
\* SUBJECT: line: one WARNING at paragraph 3 and one CRITICAL without a
\* paragraph number.
HeaderWarningsAndCritical ==
  /\ Returned
  /\ Parsed
  /\ file.paragraphs = <<"  MEMORANDUM FOR ALL", "Memorandum For Record", "FROM:">>
  /\ Len(OfSection(Result, "Header")) = 2
  /\ OfSection(Result, "Header")[1].severity = "WARNING"
  /\ OfSection(Result, "Header")[1].paragraph_number = Some(3)
  /\ OfSection(Result, "Header")[2].severity = "CRITICAL"
  /\ OfSection(Result, "Header")[2].paragraph_number = None

====
